---------------------------- MODULE Spec2Model ----------------------------
(***************************************************************************)
(* StaticStateMachine<> (src/src/StaticStateMachine.hpp) and the machines  *)
(* built on it: BlinkerImpl (src/examples/...EntryExxample.ino) and the    *)
(* README's MyTimedStateMachine (init -> run).                             *)
(*                                                                         *)
(* The machine is executed statement by statement: `stack` is the C++ call *)
(* stack of the main context, one frame per active member function, and   *)
(* every action below is one member function, stepping the frame on top.   *)
(* A selector (Updater) is a pointer to a member function; it is modelled  *)
(* by that function's name, so the selector is also what update() calls.   *)
(***************************************************************************)
EXTENDS Integers, Sequences, FiniteSets, TLC

\* ------------------------------------------------------------------ bounds
\* Width of TimeType in bits. The examples use unsigned long; the width is
\* reduced so that the clock's values stay enumerable.
TimeBits == 10
TimeMod == 2 ^ TimeBits
\* update() calls and clock advances a host makes in Spec, taken together,
\* and loop() iterations in SpecBlinker.
MaxOps == 3
MaxLoops == 30

\* ------------------------------------------------------- program constants
on_time == 300
off_time == 700

\* ------------------------------------------------------------ declarations
\* DECLARE_STATE_MEMBER(name) of each class.
States(c) == IF c = "BlinkerImpl" THEN {"on", "off"} ELSE {"init", "run"}

\* DECLARE_STATE_ENTRY_MEMBER(to, name) declares the selector to_name.
EntryTo == [on_init |-> "on", on_ |-> "on", off_ |-> "off"]
Entries(c) == IF c = "BlinkerImpl" THEN DOMAIN EntryTo ELSE {}

\* Every selector a class declares: what changeState<S>/isState<S> compile for.
Declared(c) == States(c) \cup Entries(c)

\* Mutant: an entry selector's state() returns its target's function.
S_state_Aliased(S) == "update_" \o (IF S \in DOMAIN EntryTo THEN EntryTo[S] ELSE S)

\* Mutant: an entry selector's state() returns the entry body's address.
S_state_Body(S) == IF S \in DOMAIN EntryTo THEN "enter_" \o S ELSE "update_" \o S

\* S::state(): the address of the member function update_S.
S_state(S) == "update_" \o S

\* The step functions the two macros define for a class: update_name.
StepFunctions(c) == {"update_" \o S : S \in Declared(c)}

\* Every member function a class can execute.
Defined(c) == {"changeState", "update"} \cup StepFunctions(c) \cup {"enter_" \o e : e \in Entries(c)}

\* _currentState of an object no changeState() has been called on yet: no
\* constructor of StaticStateMachine<> writes it.
NoState == "indeterminate"

VARIABLES
    cls,            \* the class of the machine object
    clock,          \* the time source TimeStamp() reads (millis)
    _currentState,  \* Updater: the current selector
    _changeTS,      \* TimeType: timestamp of the last changeState()
    led,            \* level last written to builtin_led_pin
    pin_mode,       \* mode of builtin_led_pin
    serial,         \* lines printed on Serial
    stack,          \* call stack of the main context
    lastRet,        \* the call that returned in the last step, and its value
    start,          \* target of the last changeState() made by the host
    lastCS,         \* the last changeState() call, as it found the machine
    hist,           \* step functions update() has dispatched since `start`
    nUpd,           \* update() calls made
    nStep,          \* step functions executed
    sinceCS,        \* time the source advanced since _changeTS was written
    nTick,          \* clock advances made by the host
    inc,            \* clock advance per loop() iteration (SpecBlinker)
    race            \* which context wrote each field last (SpecIsr)

machine == <<_currentState, _changeTS>>
world == <<led, pin_mode, serial>>
obs == <<start, lastCS, hist, nUpd, nStep, sinceCS, nTick, race>>
vars == <<cls, clock, _currentState, _changeTS, led, pin_mode, serial, stack,
          lastRet, start, lastCS, hist, nUpd, nStep, sinceCS, nTick, inc, race>>

\* --------------------------------------------------------------- the stack
Frame(f, a) == [fn |-> f, pc |-> 1, arg |-> a]
Idle == stack = <<>>
Top == stack[Len(stack)]
Running(f) == stack # <<>> /\ Top.fn = f
At(f, n) == Running(f) /\ Top.pc = n
Returned(f, a, v) == [fn |-> f, arg |-> a, val |-> v]
NoRet == Returned("", "", "")

\* The caller continues at statement n once g(a) returns.
Call(n, g, a) ==
    /\ stack' = Append([stack EXCEPT ![Len(stack)].pc = n], Frame(g, a))
    /\ lastRet' = NoRet

Return ==
    /\ stack' = SubSeq(stack, 1, Len(stack) - 1)
    /\ lastRet' = Returned(Top.fn, Top.arg, "void")

\* ------------------------------------------------------ the machine's reads
TimeStamp == clock

state == _currentState

isState(S) == _currentState = S_state(S)

\* Mutant: the operands of the subtraction are exchanged.
Minus_Swapped(now, then) == (then + TimeMod - now) % TimeMod

\* Mutant: a signed difference, clamped at zero.
Minus_Clamped(now, then) == IF now >= then THEN now - then ELSE 0

\* now - then in TimeType: unsigned, so the subtraction wraps at 2^TimeBits.
Minus(now, then) == (now + TimeMod - then) % TimeMod

stateElapsed == Minus(TimeStamp, _changeTS)


\* ------------------------------------------------- StaticStateMachine<States>
\* Mutant: the assignment is left out.
BaseChangeState_Dropped(S) == UNCHANGED _currentState

\* Base changeState<S>(): the selector assignment.
BaseChangeState(S) == _currentState' = S_state(S)

\* The two fields are written by whichever context runs changeState(): ts
\* and sel name the context whose write each field holds, pend the context
\* whose transition no update() has dispatched yet, lost whether a pending
\* transition of one context was overwritten by the other, isr the number
\* of interrupts taken.
WroteTS(ctx) == [race EXCEPT !.ts = ctx]
WroteState(ctx) ==
    [race EXCEPT !.sel = ctx, !.pend = ctx, !.lost = @ \/ race.pend \notin {"", ctx}]
NoRace == [ts |-> "", sel |-> "", pend |-> "", lost |-> FALSE, isr |-> 0]

\* What a changeState<S>() call finds: the dispatches made so far, whether S
\* is current already, and whether time has elapsed in the state it leaves.
Found(S) == [to |-> S, at |-> Len(hist), same |-> isState(S), aged |-> stateElapsed > 0]
NoCS == [to |-> "", at |-> 0, same |-> FALSE, aged |-> FALSE]

\* Mutant: the timestamp is taken only when the state differs.
StampTS_IfChanged == _changeTS' = IF isState(Top.arg) THEN _changeTS ELSE TimeStamp

\* _changeTS = TimeStamp();
StampTS == _changeTS' = TimeStamp

\* Mutant: the base assignment first, then the timestamp.
changeState_StateFirst ==
    /\ Running("changeState")
    /\ \/ /\ Top.pc = 1
          /\ BaseChangeState(Top.arg)
          /\ lastCS' = Found(Top.arg)
          /\ race' = WroteState("main")
          /\ stack' = [stack EXCEPT ![Len(stack)].pc = 2]
          /\ lastRet' = NoRet
          /\ UNCHANGED <<_changeTS, sinceCS>>
       \/ /\ Top.pc = 2
          /\ StampTS
          /\ sinceCS' = 0
          /\ race' = WroteTS("main")
          /\ Return
          /\ UNCHANGED <<_currentState, lastCS>>
    /\ UNCHANGED <<cls, clock, world, start, hist, nUpd, nStep, nTick, inc>>

\* Timed changeState<S>(): the timestamp first, then the base assignment.
changeState ==
    /\ Running("changeState")
    /\ \/ /\ Top.pc = 1
          /\ StampTS
          /\ sinceCS' = 0
          /\ lastCS' = Found(Top.arg)
          /\ race' = WroteTS("main")
          /\ stack' = [stack EXCEPT ![Len(stack)].pc = 2]
          /\ lastRet' = NoRet
          /\ UNCHANGED _currentState
       \/ /\ Top.pc = 2
          /\ BaseChangeState(Top.arg)
          /\ race' = WroteState("main")
          /\ Return
          /\ UNCHANGED <<_changeTS, sinceCS, lastCS>>
    /\ UNCHANGED <<cls, clock, world, start, hist, nUpd, nStep, nTick, inc>>

\* Mutant: update() invokes the state the host set, not the current one.
Dispatched_Start == S_state(start)

\* The member function update() invokes: (t.*t._currentState)().
Dispatched == _currentState

\* Mutant: update() dispatches again while the step function changed state.
update_Redispatch ==
    /\ Running("update")
    /\ IF Top.pc = 1 \/ state # hist[Len(hist)]
       THEN /\ Call(2, _currentState, "")
            /\ hist' = Append(hist, _currentState)
            /\ nStep' = nStep + 1
            /\ race' = [race EXCEPT !.pend = ""]
       ELSE /\ Return
            /\ UNCHANGED <<hist, nStep, race>>
    /\ UNCHANGED <<cls, clock, machine, world, start, lastCS, nUpd, sinceCS, nTick, inc>>

\* Mutant: update() takes a timestamp at every dispatch.
update_Stamping ==
    /\ Running("update")
    /\ \/ /\ Top.pc = 1
          /\ Call(2, _currentState, "")
          /\ hist' = Append(hist, _currentState)
          /\ nStep' = nStep + 1
          /\ _changeTS' = TimeStamp
          /\ race' = [race EXCEPT !.pend = ""]
       \/ /\ Top.pc = 2
          /\ Return
          /\ UNCHANGED <<hist, nStep, _changeTS, race>>
    /\ UNCHANGED <<cls, clock, _currentState, world, start, lastCS, nUpd, sinceCS, nTick, inc>>

\* update(): one call through the current selector, then return.
update ==
    /\ Running("update")
    /\ \/ /\ Top.pc = 1
          /\ Call(2, Dispatched, "")
          /\ hist' = Append(hist, Dispatched)
          /\ nStep' = nStep + 1
          /\ race' = [race EXCEPT !.pend = ""]
       \/ /\ Top.pc = 2
          /\ Return
          /\ UNCHANGED <<hist, nStep, race>>
    /\ UNCHANGED <<cls, clock, machine, world, start, lastCS, nUpd, sinceCS, nTick, inc>>

\* --------------------------------------------- DECLARE_STATE_ENTRY_MEMBER
\* Mutant: the entry body is called before the transition.
EntryCall_BodyFirst(e, n) ==
    IF n = 2 THEN Frame("changeState", EntryTo[e]) ELSE Frame("enter_" \o e, "")

\* The two calls of update_to_name(), in order: statement n is the n-th.
EntryCall(e, n) ==
    IF n = 1 THEN Frame("changeState", EntryTo[e]) ELSE Frame("enter_" \o e, "")

\* update_to_name(): changeState<to>(); enter_to_name();
update_entry ==
    /\ \E e \in Entries(cls) :
          /\ Running(S_state(e))
          /\ IF Top.pc \in {1, 2}
             THEN Call(Top.pc + 1, EntryCall(e, Top.pc).fn, EntryCall(e, Top.pc).arg)
             ELSE Return
    /\ UNCHANGED <<cls, clock, machine, world, obs, inc>>

\* ------------------------------------------------------------- BlinkerImpl
\* Mutant: the switch goes to the state itself, not to its entry state.
TimedSwitch_NoEntry(name, to) ==
    /\ serial' = Append(serial, <<"Time elapsed in " \o name \o " state: ", stateElapsed>>)
    /\ Call(2, "changeState", EntryTo[to])

\* What update_on()/update_off() do once their threshold is passed.
TimedSwitch(name, to) ==
    /\ serial' = Append(serial, <<"Time elapsed in " \o name \o " state: ", stateElapsed>>)
    /\ Call(2, "changeState", to)

\* Mutant: the test is >= instead of >.
Expired_AtThreshold(threshold) == stateElapsed >= threshold

\* The test of update_on()/update_off().
Expired(threshold) == stateElapsed > threshold

update_on ==
    /\ Running("update_on")
    /\ IF Top.pc = 1 /\ Expired(on_time)
       THEN TimedSwitch("on", "off_")
       ELSE Return /\ UNCHANGED serial
    /\ UNCHANGED <<cls, clock, machine, led, pin_mode, obs, inc>>

update_off ==
    /\ Running("update_off")
    /\ IF Top.pc = 1 /\ Expired(off_time)
       THEN TimedSwitch("off", "on_")
       ELSE Return /\ UNCHANGED serial
    /\ UNCHANGED <<cls, clock, machine, led, pin_mode, obs, inc>>

enter_on_init ==
    /\ Running("enter_on_init")
    /\ IF Top.pc = 1
       THEN /\ serial' = Append(serial, <<"on_init state">>)
            /\ pin_mode' = "OUTPUT"
            /\ Call(2, "changeState", "on_")
       ELSE Return /\ UNCHANGED <<serial, pin_mode>>
    /\ UNCHANGED <<cls, clock, machine, led, obs, inc>>

enter_on_ ==
    /\ Running("enter_on_")
    /\ serial' = Append(serial, <<"on_ state">>)
    /\ led' = "HIGH"
    /\ Return
    /\ UNCHANGED <<cls, clock, machine, pin_mode, obs, inc>>

enter_off_ ==
    /\ Running("enter_off_")
    /\ serial' = Append(serial, <<"off_ state">>)
    /\ led' = "LOW"
    /\ Return
    /\ UNCHANGED <<cls, clock, machine, pin_mode, obs, inc>>

\* ------------------------------------------------------ MyTimedStateMachine
update_init ==
    /\ Running("update_init")
    /\ IF Top.pc = 1
       THEN /\ serial' = Append(serial, <<"Initialize">>)
            /\ Call(2, "changeState", "run")
       ELSE Return /\ UNCHANGED serial
    /\ UNCHANGED <<cls, clock, machine, led, pin_mode, obs, inc>>

\* run is declared only; its body is left to the user and is taken empty.
update_run ==
    /\ Running("update_run")
    /\ Return
    /\ UNCHANGED <<cls, clock, machine, world, obs, inc>>

\* ------------------------------------------------------------------ a host
\* The host calls the public members between its own statements. A frame of
\* update() keeps in arg the selector the call found.
CallChangeState ==
    /\ Idle
    /\ \E S \in Declared(cls) :
          /\ stack' = <<Frame("changeState", S)>>
          /\ start' = S
    /\ hist' = <<>>
    /\ lastRet' = NoRet
    /\ UNCHANGED <<cls, clock, machine, world, lastCS, nUpd, nStep, sinceCS, nTick, inc, race>>

\* A host sets an initial state before its first update().
CallUpdate ==
    /\ Idle
    /\ _currentState # NoState
    /\ nUpd + nTick < MaxOps
    /\ stack' = <<Frame("update", state)>>
    /\ nUpd' = nUpd + 1
    /\ lastRet' = NoRet
    /\ UNCHANGED <<cls, clock, machine, world, start, lastCS, hist, nStep, sinceCS, nTick, inc, race>>

CallIsState ==
    /\ Idle
    /\ \E S \in Declared(cls) :
          /\ lastRet' = Returned("isState", S, isState(S))
    /\ UNCHANGED <<cls, clock, machine, world, stack, obs, inc>>

CallState ==
    /\ Idle
    /\ lastRet' = Returned("state", "", state)
    /\ UNCHANGED <<cls, clock, machine, world, stack, obs, inc>>

CallStateElapsed ==
    /\ Idle
    /\ lastRet' = Returned("stateElapsed", "", stateElapsed)
    /\ UNCHANGED <<cls, clock, machine, world, stack, obs, inc>>

\* Advances of the time source between two calls of the host.
Advances == {1, on_time + 1, TimeMod - 1}

Tick ==
    /\ Idle
    /\ nUpd + nTick < MaxOps
    /\ \E d \in Advances :
          /\ clock' = (clock + d) % TimeMod
          /\ sinceCS' = sinceCS + d
    /\ nTick' = nTick + 1
    /\ lastRet' = NoRet
    /\ UNCHANGED <<cls, machine, world, stack, start, lastCS, hist, nUpd, nStep, inc, race>>

\* loop(): blinker.update(), the clock having advanced by inc since the last.
loop ==
    /\ Idle
    /\ nUpd < MaxLoops
    /\ clock' = (clock + inc) % TimeMod
    /\ sinceCS' = sinceCS + inc
    /\ stack' = <<Frame("update", state)>>
    /\ nUpd' = nUpd + 1
    /\ lastRet' = NoRet
    /\ UNCHANGED <<cls, machine, world, start, lastCS, hist, nStep, nTick, inc, race>>

\* ---------------------------------------------------------- initial states
ClockStarts == {0, TimeMod - on_time, TimeMod - 1}

\* BlinkerImpl(): changeState<on_init>() has run.
BlinkerImpl ==
    /\ cls = "BlinkerImpl"
    /\ clock \in ClockStarts
    /\ _currentState = S_state("on_init")
    /\ _changeTS = clock
    /\ start = "on_init"
    /\ lastCS = [NoCS EXCEPT !.to = "on_init"]
    /\ race = [NoRace EXCEPT !.ts = "main", !.sel = "main", !.pend = "main"]

\* MyTimedStateMachine mtsm; no constructor writes the two fields.
MyTimedStateMachine ==
    /\ cls = "MyTimedStateMachine"
    /\ clock \in ClockStarts
    /\ _currentState = NoState
    /\ _changeTS \in ClockStarts
    /\ start = ""
    /\ lastCS = NoCS
    /\ race = NoRace

Fresh ==
    /\ led = "unset"
    /\ pin_mode = "unset"
    /\ serial = <<>>
    /\ stack = <<>>
    /\ lastRet = NoRet
    /\ hist = <<>>
    /\ nUpd = 0
    /\ nStep = 0
    /\ sinceCS = 0
    /\ nTick = 0

Init ==
    /\ BlinkerImpl \/ MyTimedStateMachine
    /\ Fresh
    /\ inc = 0

Next ==
    \/ CallChangeState
    \/ CallUpdate
    \/ CallIsState
    \/ CallState
    \/ CallStateElapsed
    \/ Tick
    \/ changeState
    \/ update
    \/ update_entry
    \/ update_on
    \/ update_off
    \/ enter_on_init
    \/ enter_on_
    \/ enter_off_
    \/ update_init
    \/ update_run

Spec == Init /\ [][Next]_vars

\* The example sketch: the global blinker, and loop() forever.
Incs == {70, 100, 150, on_time}

InitBlinker ==
    /\ BlinkerImpl
    /\ Fresh
    /\ inc \in Incs

NextBlinker ==
    \/ loop
    \/ changeState
    \/ update
    \/ update_entry
    \/ update_on
    \/ update_off
    \/ enter_on_init
    \/ enter_on_
    \/ enter_off_

SpecBlinker == InitBlinker /\ [][NextBlinker]_vars

\* The sketch running forever: the runtime calls loop() again and again and
\* every call runs to completion. What earlier iterations printed and were
\* seen to do is forgotten at each call, the machine and its pin are kept.
LiveIncs == Incs \cup {TimeMod - off_time - 1}

loop_forever ==
    /\ Idle
    /\ clock' = (clock + inc) % TimeMod
    /\ stack' = <<Frame("update", state)>>
    /\ lastRet' = NoRet
    /\ hist' = <<>>
    /\ serial' = <<>>
    /\ nUpd' = 1
    /\ nStep' = 0
    /\ sinceCS' = 0
    /\ UNCHANGED <<cls, machine, led, pin_mode, start, lastCS, nTick, inc, race>>

InitLive ==
    /\ BlinkerImpl
    /\ Fresh
    /\ inc \in LiveIncs

NextLive ==
    \/ loop_forever
    \/ changeState
    \/ update
    \/ update_entry
    \/ update_on
    \/ update_off
    \/ enter_on_init
    \/ enter_on_
    \/ enter_off_

SpecLive == InitLive /\ [][NextLive]_vars /\ WF_vars(NextLive)

\* The sketch with an interrupt handler that alters the machine "from
\* outside": it preempts the main context anywhere inside update(), runs a
\* whole timed changeState<S>() and returns; nothing excludes it.
MaxIsr == 1
IsrLoops == 2

isr ==
    /\ ~Idle
    /\ race.isr < MaxIsr
    /\ nUpd <= IsrLoops
    /\ \E S \in Declared(cls) :
          /\ StampTS
          /\ BaseChangeState(S)
    /\ sinceCS' = 0
    /\ race' = [WroteState("isr") EXCEPT !.ts = "isr", !.isr = @ + 1]
    /\ lastRet' = NoRet
    /\ UNCHANGED <<cls, clock, world, stack, start, lastCS, hist, nUpd, nStep, nTick, inc>>

NextIsr ==
    \/ NextBlinker
    \/ isr

SpecIsr == InitBlinker /\ [][NextIsr]_vars

\* ------------------------------------------------------------------ claims
InUpdate == stack # <<>> /\ stack[1].fn = "update"
Initialised == _currentState # NoState
Lines(text) == {i \in DOMAIN serial : serial[i][1] = text}

\* C1: right after changeState<S>() returns, from the host, a step function
\* or an entry body, isState<S>() is true and isState<T>() is false for
\* every other declared selector T.
C1_OnlyTargetIsState ==
    lastRet.fn = "changeState" =>
        \A T \in Declared(cls) : isState(T) <=> (T = lastRet.arg)

\* A host changed to an entry selector from another selector.
C1_Witness ==
    /\ Idle
    /\ lastRet.fn = "changeState"
    /\ lastRet.arg \in Entries(cls)
    /\ ~lastCS.same
    /\ nUpd > 0

\* C2: an update() call that finds selector S runs S's step function, once,
\* and no other: there are as many step executions as update() calls.
C2_OneStepPerUpdate ==
    /\ nStep = IF At("update", 1) THEN nUpd - 1 ELSE nUpd
    /\ Len(hist) <= nStep
    /\ (InUpdate /\ stack[1].pc = 2) => hist[Len(hist)] = stack[1].arg
    /\ lastRet.fn = "update" => hist[Len(hist)] = lastRet.arg

\* The second update() has returned, and its step function changed the state.
C2_Witness ==
    /\ lastRet.fn = "update"
    /\ nUpd = 2
    /\ state # lastRet.arg

\* C3: a changeState<T>() made by the step function an update() dispatched
\* does not run T's step function within that update(); T's step function is
\* what the next update() dispatches. For the README machine started at init:
\* the first update() runs init only, the second runs run.
C3_NextUpdateRunsTarget ==
    /\ (lastCS.to # "" /\ Len(hist) > lastCS.at) =>
          hist[lastCS.at + 1] = S_state(lastCS.to)
    /\ (InUpdate /\ stack[1].pc = 2 /\ lastCS.at = Len(hist)) =>
          /\ nStep = nUpd
          /\ Len(stack) >= 2 => stack[2].fn = stack[1].arg
          /\ \A i \in 3..Len(stack) : stack[i].fn \notin {S_state(S) : S \in Declared(cls)}
    /\ (cls = "MyTimedStateMachine" /\ start = "init") =>
          /\ Len(hist) >= 1 => hist[1] = "update_init"
          /\ Len(hist) >= 2 => hist[2] = "update_run"
          /\ (Len(hist) = 1 /\ Idle) => isState("run")

\* The README's run: changeState<init>(), update(), update().
C3_Witness ==
    /\ cls = "MyTimedStateMachine"
    /\ start = "init"
    /\ Idle
    /\ hist = <<"update_init", "update_run">>
    /\ lastCS = [to |-> "run", at |-> 1, same |-> FALSE, aged |-> FALSE]

\* C4 as stated: after a changeState<S>() stateElapsed() is 0, and once the
\* time source has advanced by d since, stateElapsed() is d, for every d.
C4_ElapsedIsAdvance ==
    Initialised =>
        /\ lastRet.fn = "changeState" => stateElapsed = 0
        /\ stateElapsed = sinceCS

\* C4, amended: after a changeState<S>() stateElapsed() is 0, and once the
\* time source has advanced by d since, stateElapsed() is d for every d below
\* 2^TimeBits, and d modulo 2^TimeBits in general.
C4_ElapsedIsAdvanceInRange ==
    Initialised =>
        /\ lastRet.fn = "changeState" => stateElapsed = 0
        /\ sinceCS < TimeMod => stateElapsed = sinceCS
        /\ stateElapsed = sinceCS % TimeMod

\* stateElapsed() returned d > 0 after the clock advanced twice, by d in all.
C4_Witness ==
    /\ lastRet.fn = "stateElapsed"
    /\ lastRet.val = sinceCS
    /\ nTick = 2
    /\ sinceCS > on_time

\* C5: when the time source has wrapped once since changeState(), so that it
\* reads (t0 + d) mod 2^TimeBits, numerically below the timestamp t0, with
\* d < 2^TimeBits, stateElapsed() is still the forward duration d.
C5_ElapsedAcrossWrap ==
    (Initialised /\ sinceCS < TimeMod /\ TimeStamp < _changeTS) =>
        /\ TimeStamp = (_changeTS + sinceCS) % TimeMod
        /\ stateElapsed = sinceCS
        /\ stateElapsed = TimeStamp + (TimeMod - _changeTS)

\* stateElapsed() was read after the clock wrapped past a nonzero timestamp.
C5_Witness ==
    /\ lastRet.fn = "stateElapsed"
    /\ lastRet.val = sinceCS
    /\ _changeTS > 0
    /\ TimeStamp < _changeTS
    /\ sinceCS > 1

\* C6 as stated: the blinker starts at on_init; the first update() runs the
\* on_init entry body once and leaves the machine in on; the second update()
\* runs the ordinary on step function, not an entry body.
C6_SecondUpdateRunsOn ==
    /\ Len(hist) >= 1 => hist[1] = "update_on_init"
    /\ (nUpd = 1 /\ Idle) => (isState("on") /\ Cardinality(Lines("on_init state")) = 1)
    /\ Len(hist) >= 2 => hist[2] = "update_on"
    /\ (nUpd = 2 /\ Idle) => Len(serial) = 1

\* C6, amended: the first update() passes through on and runs the on_init
\* entry body once, whose changeState<on_>() leaves the machine in the entry
\* selector on_; the second update() runs the entry step of on_ (transition to
\* on, then the on_ entry body); the third update() runs the ordinary on step
\* function; the on_init body never runs again.
C6_ThirdUpdateRunsOn ==
    /\ Len(hist) >= 1 => hist[1] = "update_on_init"
    /\ (nUpd = 1 /\ Idle) => (isState("on_") /\ serial = << <<"on_init state">> >>)
    /\ Len(hist) >= 2 => hist[2] = "update_on_"
    /\ (nUpd = 2 /\ Idle) =>
          (isState("on") /\ serial = << <<"on_init state">>, <<"on_ state">> >>)
    /\ Len(hist) >= 3 => hist[3] = "update_on"
    /\ \A k \in 2..Len(hist) : hist[k] # "update_on_init"
    /\ Cardinality(Lines("on_init state")) <= 1

\* The third update() has dispatched the on step function.
C6_Witness ==
    /\ nUpd = 3
    /\ At("update_on", 1)
    /\ hist = <<"update_on_init", "update_on_", "update_on">>

\* C7: the step function of an entry selector e of target T calls
\* changeState<T>() first and the entry body second, once, and nothing else;
\* when the entry body starts, isState<T>() holds, isState<e>() does not, and
\* stateElapsed() is 0.
C7_EntryTransitionsThenEnters ==
    \A e \in Entries(cls) :
        /\ At("enter_" \o e, 1) =>
              /\ isState(EntryTo[e])
              /\ ~isState(e)
              /\ stateElapsed = 0
              /\ Len(stack) >= 2
              /\ stack[Len(stack) - 1] = [fn |-> S_state(e), pc |-> 3, arg |-> ""]
        /\ Running(S_state(e)) =>
              /\ Top.pc \in 1..3
              /\ Top.pc = 2 => lastRet = Returned("changeState", EntryTo[e], "void")
              /\ Top.pc = 3 => lastRet = Returned("enter_" \o e, "", "void")
        /\ (\E i \in DOMAIN stack : stack[i].fn = "enter_" \o e) =>
              Cardinality({i \in DOMAIN stack : stack[i].fn \in {S_state(e), "enter_" \o e}}) = 2

\* The off_ entry body starts, the machine having been in off_ for a while.
C7_Witness ==
    /\ At("enter_off_", 1)
    /\ lastCS = [to |-> "off", at |-> Len(hist), same |-> FALSE, aged |-> TRUE]

\* C8: changeState<S>() called while S is already current leaves S current
\* and takes a fresh timestamp: stateElapsed() is 0 after it, however long
\* the machine had been in S.
C8_SameStateRestartsTimer ==
    (lastRet.fn = "changeState" /\ lastCS.same) =>
        /\ lastCS.to = lastRet.arg
        /\ isState(lastRet.arg)
        /\ _changeTS = TimeStamp
        /\ stateElapsed = 0
        /\ sinceCS = 0

\* A host called changeState<S>() twice in a row, time passing in between.
C8_Witness ==
    /\ Idle
    /\ lastRet.fn = "changeState"
    /\ lastCS.same
    /\ lastCS.aged
    /\ start = lastCS.to
    /\ nTick > 0

\* The stays the sketch has reported: the lines "Time elapsed in ... state".
TimedLine(i, name) == serial[i] = <<"Time elapsed in " \o name \o " state: ", serial[i][2]>>
Threshold(name) == IF name = "on" THEN on_time ELSE off_time

\* What the sketch prints, line by line: on_init, on_, and then forever the
\* on stay, off_, the off stay, on_.
Alternates ==
    \A i \in DOMAIN serial :
        CASE i = 1 -> serial[i] = <<"on_init state">>
          [] i = 2 -> serial[i] = <<"on_ state">>
          [] i > 2 /\ i % 4 = 3 -> Len(serial[i]) = 2 /\ TimedLine(i, "on")
          [] i > 2 /\ i % 4 = 0 -> serial[i] = <<"off_ state">>
          [] i > 2 /\ i % 4 = 1 -> Len(serial[i]) = 2 /\ TimedLine(i, "off")
          [] i > 2 /\ i % 4 = 2 -> serial[i] = <<"on_ state">>

\* C9 as stated: with the clock advancing by inc per update(), the blinker
\* alternates on/off and every completed stay in on (off) lasts at least
\* on_time (off_time) and strictly less than that plus inc.
C9_StayWithinOneTick ==
    /\ Alternates
    /\ \A i \in DOMAIN serial : \A name \in {"on", "off"} :
          (Len(serial[i]) = 2 /\ TimedLine(i, name)) =>
              /\ serial[i][2] >= Threshold(name)
              /\ serial[i][2] < Threshold(name) + inc

\* C9, amended: with the clock advancing by inc per update(), inc below
\* 2^TimeBits less the threshold, the blinker alternates on/off and every
\* completed stay in on (off) lasts strictly more than on_time (off_time) and
\* at most that plus inc; the reported stay is the time that really passed.
C9_StayExceedsThreshold ==
    /\ Alternates
    /\ \A i \in DOMAIN serial : \A name \in {"on", "off"} :
          (Len(serial[i]) = 2 /\ TimedLine(i, name)) =>
              /\ serial[i][2] > Threshold(name)
              /\ serial[i][2] <= Threshold(name) + inc
    /\ \A name \in {"on", "off"} :
          (At("update_" \o name, 1) /\ Expired(Threshold(name))) => stateElapsed = sinceCS

\* Two stays in on and one in off are complete, the clock having wrapped.
C9_Witness ==
    /\ Len(serial) >= 7
    /\ Idle
    /\ inc = 70
    /\ nUpd * inc > TimeMod
    /\ serial[3][2] = 350
    /\ serial[5][2] = 770

\* C10: _changeTS is written at, and only at, the first statement of a
\* changeState() call, and _currentState only at its second; isState(),
\* state() and stateElapsed() leave both as they are, and so does an
\* update() whose step function calls no changeState().
C10_OnlyChangeStateWrites ==
    [][ /\ _changeTS' # _changeTS => At("changeState", 1)
        /\ At("changeState", 1) => _changeTS' = TimeStamp
        /\ _currentState' # _currentState => At("changeState", 2)
        /\ lastRet'.fn \in {"isState", "state", "stateElapsed"} => UNCHANGED machine
        /\ (lastRet'.fn = "update" /\ lastCS.at < Len(hist)) => _currentState' = lastRet'.arg
      ]_vars

\* An update() returned whose step function called no changeState(), and
\* stateElapsed() was read while time had passed.
C10_Witness ==
    \/ /\ lastRet.fn = "update"
       /\ lastCS.at < Len(hist)
       /\ sinceCS > 0
    \/ /\ lastRet.fn = "stateElapsed"
       /\ lastRet.val > 0

\* C11 as stated: from construction on the current selector is a declared
\* selector, so every update() dispatches a defined step function.
C11_AlwaysDeclared ==
    /\ _currentState \in StepFunctions(cls)
    /\ \A i \in DOMAIN hist : hist[i] \in StepFunctions(cls)

\* C11, amended: changeState() always completes; once a first changeState()
\* has returned (in BlinkerImpl: from construction on, its constructor makes
\* that call) the current selector is a declared selector for good, every
\* update() dispatches a defined step function and every call runs to its
\* return. Until then the selector of a class without such a constructor
\* (MyTimedStateMachine) is indeterminate.
C11_DeclaredOnceSet ==
    /\ _currentState \in StepFunctions(cls) \cup {NoState}
    /\ _currentState = NoState =>
          /\ cls = "MyTimedStateMachine"
          /\ nUpd = 0
          /\ \/ Idle /\ start = ""
             \/ stack = <<[fn |-> "changeState", pc |-> 1, arg |-> start]>>
             \/ stack = <<[fn |-> "changeState", pc |-> 2, arg |-> start]>>
    /\ \A i \in DOMAIN hist : hist[i] \in StepFunctions(cls)
    /\ \A i \in DOMAIN stack :
          /\ stack[i].fn \in Defined(cls)
          /\ stack[i].pc \in 1..3
          /\ i > 1 => stack[i - 1].fn # "changeState"
    /\ (InUpdate /\ Len(stack) >= 2) => stack[2].fn \in StepFunctions(cls)

\* The README machine, its state set by the host, runs its second update().
C11_Witness ==
    /\ cls = "MyTimedStateMachine"
    /\ At("update_run", 1)
    /\ nUpd = 2
    /\ hist = <<"update_init", "update_run">>

\* C12: changeState() excludes nobody. An interrupt that calls it while the
\* main context is inside update() can overwrite a transition no update()
\* has dispatched yet, or have its own overwritten, and can leave the
\* selector written by one call next to the timestamp written by the other.
\* As long as no interrupt has called it, every changeState<S>() returns
\* with S current and a fresh timestamp, both fields hold writes of the same
\* call whenever no call is between its two writes, no transition is
\* overwritten by another context, and update() returns with the target of
\* the last call in force.
Torn == race.ts # race.sel /\ ~At("changeState", 2)

C12_NoRaceInOneContext ==
    /\ race.isr = 0 =>
          /\ ~Torn
          /\ ~race.lost
          /\ lastRet.fn = "changeState" => isState(lastRet.arg) /\ stateElapsed = 0
          /\ (Idle /\ nUpd > 0) => isState(lastCS.to)
    /\ (Torn \/ race.lost) => race.isr > 0

\* update() has returned: the interrupt's transition was overwritten by the
\* step function's, whose selector now stands next to the interrupt's
\* timestamp.
C12_Witness ==
    /\ Idle
    /\ nUpd > 0
    /\ race.lost
    /\ race.sel = "main"
    /\ race.ts = "isr"
    /\ isState(lastCS.to)

\* C13: last write wins within a tick. At every point of an update() after
\* one of its changeState calls has returned, and so when update() returns,
\* the current selector is the target of the latest call, no other selector
\* is current, and the timestamp is the time of that call. The entry step
\* on_init calls changeState<on>() and then, in its body, changeState<on_>():
\* after that update() the selector is on_, not on.
CalledInUpdate == hist # <<>> /\ lastCS.at = Len(hist) /\ ~Running("changeState")

C13_LastWriteWins ==
    /\ ((InUpdate /\ stack[1].pc = 2) \/ lastRet.fn = "update") /\ CalledInUpdate =>
          /\ \A T \in Declared(cls) : isState(T) <=> (T = lastCS.to)
          /\ stateElapsed = 0
          /\ sinceCS = 0
    /\ (lastRet.fn = "update" /\ lastRet.arg = S_state("on_init")) =>
          /\ lastCS.to = "on_"
          /\ isState("on_")
          /\ ~isState("on")

\* A later update() dispatched on_init at a time other than the
\* constructor's, and has returned.
C13_Witness ==
    /\ Idle
    /\ lastRet.fn = "update"
    /\ lastRet.arg = S_state("on_init")
    /\ nTick > 0
    /\ isState("on_")
    /\ _changeTS = clock

\* C14: successive update() calls of the blinker dispatch on_init, on_, then
\* one or more on, exactly one off_, one or more off, exactly one on_, one or
\* more on, and so on: on_init is dispatched only by the first call, every
\* entry step is followed by its state's step, and a state's step is
\* followed by itself or by the other state's entry step.
Follows(f) ==
    CASE f = S_state("on_init") -> {S_state("on_")}
      [] f = S_state("on_") -> {S_state("on")}
      [] f = S_state("on") -> {S_state("on"), S_state("off_")}
      [] f = S_state("off_") -> {S_state("off")}
      [] f = S_state("off") -> {S_state("off"), S_state("on_")}
      [] OTHER -> {}

C14_DispatchSequence ==
    /\ Len(hist) \in {nUpd - 1, nUpd}
    /\ hist # <<>> => hist[1] = S_state("on_init")
    /\ \A i \in DOMAIN hist : i > 1 => hist[i] \in Follows(hist[i - 1])

\* Two full periods have been dispatched.
C14_Witness ==
    /\ Idle
    /\ hist # <<>>
    /\ hist[Len(hist)] = S_state("on")
    /\ Cardinality({i \in DOMAIN hist : hist[i] = S_state("off_")}) = 2
    /\ Cardinality({i \in DOMAIN hist : hist[i] = S_state("on_")}) = 3
    /\ Cardinality({i \in DOMAIN hist : hist[i] = S_state("on_init")}) = 1

\* C15: the timed changeState<S>() writes the timestamp before the selector.
\* Between its two writes the timestamp is already this call's (no time has
\* elapsed since it) while the selector is still the one the call found, so
\* S is current there only if it was current before; the selector written
\* by the call is never seen next to the timestamp the call found.
C15_TimestampBeforeSelector ==
    /\ At("changeState", 2) =>
          /\ lastCS.to = Top.arg
          /\ stateElapsed = 0
          /\ sinceCS = 0
          /\ isState(Top.arg) <=> lastCS.same
    /\ lastRet.fn = "changeState" =>
          /\ isState(lastRet.arg)
          /\ stateElapsed = 0

\* Between the two writes of a call made after time had elapsed in another
\* state: the old selector next to the new timestamp.
C15_Witness ==
    /\ At("changeState", 2)
    /\ lastCS.aged
    /\ ~isState(Top.arg)
    /\ Initialised
    /\ _changeTS = clock

\* C16: with loop() called forever and the clock advancing between two calls
\* by a positive amount smaller than the range of the time type minus the
\* threshold, the blinker stays in no state forever: it is in on again and
\* again and in off again and again, every on is followed by off and every
\* off by on.
C16_BlinksForever ==
    /\ []<>isState("on")
    /\ []<>isState("off")
    /\ isState("on") ~> isState("off")
    /\ isState("off") ~> isState("on")

\* With the longest advance allowed for off_time, the on_ entry body is
\* entered with the LED still LOW from off: on, off and on again.
C16_Witness ==
    /\ At("enter_on_", 1)
    /\ led = "LOW"
    /\ inc = TimeMod - off_time - 1

\* C17: between two update() calls of the blinker the LED was last written
\* HIGH when the selector is on and LOW when it is off. Only the on_ and
\* off_ entry bodies write it, once per change: from the update() in which
\* on or off decides to switch until the entry step has run, the LED still
\* shows the state that was left (nothing before the first on_), and it
\* shows the new state from then on.
C17_LedFollowsState ==
    Idle =>
        /\ isState("on") => led = "HIGH"
        /\ isState("off") => led = "LOW"
        /\ isState("off_") => led = "HIGH"
        /\ isState("on_") => led = IF Len(hist) = 1 THEN "unset" ELSE "LOW"
        /\ isState("on_init") => led = "unset"
        /\ Cardinality({i \in DOMAIN hist : hist[i] \in {S_state("on_"), S_state("off_")}})
              = Cardinality(Lines("on_ state") \cup Lines("off_ state"))

\* off with the LED LOW, for the second time.
C17_Witness ==
    /\ Idle
    /\ isState("off")
    /\ led = "LOW"
    /\ Cardinality({i \in DOMAIN hist : hist[i] = S_state("off_")}) = 2
    /\ stateElapsed > 0

StepOf(S) == {S_state(T) : T \in S}
LastStep == hist[Len(hist)]
LastEntryAt == CHOOSE j \in DOMAIN hist :
    /\ hist[j] \in StepOf(Entries(cls))
    /\ \A k \in DOMAIN hist : hist[k] \in StepOf(Entries(cls)) => k <= j

\* C18 as stated: between two update() calls an entry selector is current
\* for exactly one interval after construction and after every update() in
\* which on or off decides to switch, so the update() before such an
\* interval, if there is one, dispatched on or off.
C18_EntryForOneInterval ==
    (Idle /\ nUpd > 0 /\ _currentState \in StepOf(Entries(cls))) =>
        LastStep \in StepOf(States(cls))

\* C18, amended: between two update() calls the selector is one of on_init,
\* on_, on, off_, off. An entry selector is current, with isState<on>() and
\* isState<off>() both false, for the two intervals after construction
\* (on_init, then on_, which the on_init entry body requests) and for exactly
\* one interval after every update() in which on or off decides to switch;
\* the update() after it dispatches the entry step, which leaves on or off.
\* The timestamp is refreshed when the switch is requested and again when
\* the entry step runs, so the time on and off see elapsed counts from the
\* entry step's tick.
C18_EntryIntervals ==
    Idle =>
        /\ _currentState \in StepOf(Declared(cls))
        /\ nUpd = 0 => isState("on_init")
        /\ nUpd = 1 => isState("on_") /\ LastStep = S_state("on_init")
        /\ nUpd > 1 =>
              /\ LastStep # S_state("on_init")
              /\ \A e \in Entries(cls) : LastStep = S_state(e) => isState(EntryTo[e])
              /\ (LastStep \in StepOf(States(cls)) /\ lastCS.at = Len(hist)) =>
                    /\ _currentState \in StepOf(Entries(cls))
                    /\ isState(lastCS.to)
              /\ (LastStep \in StepOf(States(cls)) /\ lastCS.at < Len(hist)) =>
                    _currentState = LastStep
        /\ _currentState \in StepOf(Entries(cls)) =>
              /\ ~isState("on")
              /\ ~isState("off")
              /\ stateElapsed = 0
              /\ sinceCS = 0
        /\ (nUpd > 1 /\ _currentState \in StepOf(States(cls))) =>
              /\ sinceCS = (Len(hist) - LastEntryAt) * inc
              /\ stateElapsed = sinceCS % TimeMod

\* off_ is current between two calls for the second time: on decided to
\* switch in the last update(), which refreshed the timestamp, and the
\* timestamp that on saw had been refreshed by the on_ entry step.
C18_Witness ==
    /\ Idle
    /\ isState("off_")
    /\ LastStep = S_state("on")
    /\ Cardinality({i \in DOMAIN hist : hist[i] = S_state("on_")}) = 2
    /\ stateElapsed = 0
    /\ serial[Len(serial)][2] = (Len(hist) - LastEntryAt) * inc

\* C19: stateElapsed() is the true time d since the last changeState()
\* modulo 2^TimeBits, so from d = 2^TimeBits on it is smaller than d. The
\* test of on (off) sees that value only: an update() that dispatches it
\* switches exactly when d modulo 2^TimeBits exceeds the threshold, and when
\* no update() came while the value was above the threshold, the state is
\* kept although d exceeds the threshold.
C19_ElapsedAliases ==
    Initialised =>
        /\ stateElapsed = sinceCS % TimeMod
        /\ sinceCS >= TimeMod => stateElapsed < sinceCS
        /\ lastRet.fn = "stateElapsed" => lastRet.val = sinceCS % TimeMod
        /\ \A S \in States("BlinkerImpl") :
              (lastRet.fn = "update" /\ lastRet.arg = S_state(S)) =>
                  IF lastCS.at = Len(hist)
                  THEN /\ isState(IF S = "on" THEN "off_" ELSE "on_")
                       /\ serial[Len(serial)][2] > Threshold(S)
                  ELSE /\ isState(S)
                       /\ sinceCS % TimeMod <= Threshold(S)

\* on was dispatched 2^TimeBits or more after the timestamp, without an
\* update() in between, and did not switch.
C19_Witness ==
    /\ lastRet.fn = "update"
    /\ lastRet.arg = S_state("on")
    /\ isState("on")
    /\ sinceCS >= TimeMod
    /\ stateElapsed <= on_time
    /\ nUpd = 1

=============================================================================
